---- MODULE Spec2Model ----
(***************************************************************************)
(* The trie builder of hypher (src/builder.rs): patterns are inserted into *)
(* a byte-labelled trie with a shared table of levels, the trie is         *)
(* suffix-compressed by hash-consing, and the result is laid out in two    *)
(* passes and serialised into one byte buffer.                             *)
(*                                                                         *)
(* Node indices, table offsets and byte addresses are 0-based as in the    *)
(* source; TLA+ sequences are 1-based, so element i of a Vec v is v[i+1].  *)
(* A byte is an integer in 0..255.  Option<(usize, usize)> is <<>> for     *)
(* None and <<offset, len>> for Some((offset, len)).                       *)
(***************************************************************************)
EXTENDS Integers, Sequences, FiniteSets, TLC

\* tex:    the patterns of the file, in the order parse() finds them
\* pos:    the number of patterns handed to insert() so far
\* root, nodes, levels: the fields of the TrieBuilder
\* phase:  "building", "compressed", "encoded" or "aborted" (encode panicked)
\* data:   the buffer encode() returned
\* trie:   self.nodes as it was when compress() was called
VARIABLES tex, pos, root, nodes, levels, phase, data, trie

vars == <<tex, pos, root, nodes, levels, phase, data, trie>>

(***************************************************************************)
(* Bounds of the model.                                                    *)
(***************************************************************************)
\* longest pattern file drawn from the pattern library
MaxPatterns == 3
\* patterns below "b" in the short comb file
CombShort == 31
\* patterns below "b" in the long comb file
CombLong == 62
\* digits of the pattern of the digits file
ManyDigits == 16

(***************************************************************************)
(* Patterns, as byte strings.                                              *)
(***************************************************************************)
\* ".ab1c"
PatAb1c == <<46, 97, 98, 49, 99>>
\* ".ab2d"
PatAb2d == <<46, 97, 98, 50, 100>>
\* "a1"
PatA1 == <<97, 49>>
\* "a1b1c"
PatA1b1c == <<97, 49, 98, 49, 99>>
\* "x1y1c"
PatX1y1c == <<120, 49, 121, 49, 99>>
\* "a2b1c": the letters of "a1b1c" with other digits
PatA2b1c == <<97, 50, 98, 49, 99>>

Library == {PatAb1c, PatAb2d, PatA1, PatA1b1c, PatX1y1c, PatA2b1c}

RECURSIVE SeqsUpTo(_, _)
SeqsUpTo(S, n) ==
    IF n = 0 THEN {<<>>}
    ELSE LET shorter == SeqsUpTo(S, n - 1)
         IN  shorter \cup {Append(s, x) : s \in {t \in shorter : Len(t) = n - 1}, x \in S}

\* "a" and then the n two-letter patterns "bA", "bB", ...
CombFile(n) == << <<97>> >> \o [k \in 1..n |-> <<98, 64 + k>>]
\* one pattern of n digits "1" and no letter
DigitsFile(n) == << [k \in 1..n |-> 49] >>

\* The pattern files the model builds: the sequence of patterns that
\* parse() hands to insert().
Files ==
    SeqsUpTo(Library, MaxPatterns)
        \cup {CombFile(CombShort - 1), CombFile(CombShort), CombFile(CombLong)}
        \cup {DigitsFile(ManyDigits)}

(***************************************************************************)
(* TrieBuilder::new and Node::default.                                     *)
(***************************************************************************)
None == <<>>

DefaultNode == [trans |-> <<>>, targets |-> <<>>, levels |-> None]

new == [root |-> 0, nodes |-> <<DefaultNode>>, levels |-> <<>>]

(***************************************************************************)
(* TrieBuilder::insert.                                                    *)
(***************************************************************************)
is_ascii_digit(b) == b >= 48 /\ b <= 57

\* node.trans.iter().position(|&x| x == b): 0-based, -1 for None
position(trans, b) ==
    IF \E i \in 1..Len(trans) : trans[i] = b
    THEN (CHOOSE i \in 1..Len(trans) :
             trans[i] = b /\ \A j \in 1..(i - 1) : trans[j] # b) - 1
    ELSE -1

\* A variant of push_level that keeps the byte of the digit.
push_level_raw(lv, dist, b) == Append(lv, <<dist, b>>)

\* levels.push((dist, b - b'0'))
push_level(lv, dist, b) == Append(lv, <<dist, b - 48>>)

\* A variant of insert_loop without dist = 0 after a digit.
RECURSIVE insert_loop_no_reset(_, _, _, _, _, _)
insert_loop_no_reset(ns, pattern, k, state, dist, lv) ==
    IF k > Len(pattern) THEN [nodes |-> ns, state |-> state, levels |-> lv]
    ELSE LET b == pattern[k] IN
         IF is_ascii_digit(b)
         THEN insert_loop_no_reset(ns, pattern, k + 1, state, dist, push_level(lv, dist, b))
         ELSE LET len == Len(ns)
                  node == ns[state + 1]
                  i == position(node.trans, b)
              IN  IF i >= 0
                  THEN insert_loop_no_reset(ns, pattern, k + 1, node.targets[i + 1],
                                            dist + 1, lv)
                  ELSE insert_loop_no_reset(
                         Append([ns EXCEPT ![state + 1] =
                                    [node EXCEPT !.trans = Append(node.trans, b),
                                                 !.targets = Append(node.targets, len)]],
                                DefaultNode),
                         pattern, k + 1, len, dist + 1, lv)

\* The loop over pattern.bytes(), from byte k on (1-based), with the
\* locals state, dist and levels; ns is self.nodes.
RECURSIVE insert_loop(_, _, _, _, _, _)
insert_loop(ns, pattern, k, state, dist, lv) ==
    IF k > Len(pattern) THEN [nodes |-> ns, state |-> state, levels |-> lv]
    ELSE LET b == pattern[k] IN
         IF is_ascii_digit(b)
         THEN insert_loop(ns, pattern, k + 1, state, 0, push_level(lv, dist, b))
         ELSE LET len == Len(ns)
                  node == ns[state + 1]
                  i == position(node.trans, b)
              IN  IF i >= 0
                  THEN insert_loop(ns, pattern, k + 1, node.targets[i + 1], dist + 1, lv)
                  ELSE insert_loop(
                         Append([ns EXCEPT ![state + 1] =
                                    [node EXCEPT !.trans = Append(node.trans, b),
                                                 !.targets = Append(node.targets, len)]],
                                DefaultNode),
                         pattern, k + 1, len, dist + 1, lv)

\* A variant of starts_with that compares the first element only.
starts_with_first(s, prefix) ==
    Len(prefix) = 0 \/ (Len(s) > 0 /\ s[1] = prefix[1])

\* slice::starts_with
starts_with(s, prefix) ==
    Len(prefix) <= Len(s) /\ SubSeq(s, 1, Len(prefix)) = prefix

\* while offset < self.levels.len()
\*     && !self.levels[offset..].starts_with(&levels) { offset += 1 }
RECURSIVE find_offset_from(_, _, _)
find_offset_from(table, lv, offset) ==
    IF offset < Len(table) /\ ~starts_with(SubSeq(table, offset + 1, Len(table)), lv)
    THEN find_offset_from(table, lv, offset + 1)
    ELSE offset

\* A variant of find_offset that never reuses levels.
find_offset_append(table, lv) == Len(table)

find_offset(table, lv) == find_offset_from(table, lv, 0)

\* insert() on the builder b = [root, nodes, levels]
insert(b, pattern) ==
    LET w == insert_loop(b.nodes, pattern, 1, 0, 0, <<>>)
        offset == find_offset(b.levels, w.levels)
    IN  [root |-> b.root,
         nodes |-> [w.nodes EXCEPT ![w.state + 1].levels = <<offset, Len(w.levels)>>],
         levels |-> IF offset = Len(b.levels) THEN b.levels \o w.levels ELSE b.levels]

(***************************************************************************)
(* TrieBuilder::compress and compress_node.                                *)
(***************************************************************************)
\* A variant of node_key that leaves the levels out.
node_key_no_levels(x) == [trans |-> x.trans, targets |-> x.targets]

\* The key of the HashMap<Node, usize>: Node derives PartialEq, Eq and Hash
\* over all three of its fields.
node_key(x) == x

\* A variant of map_get that finds every entry vacant.
map_get_miss(map, key) == -1

\* The index stored under key in map, -1 when the entry is vacant.
map_get(map, key) ==
    IF \E e \in map : e.key = key
    THEN (CHOOSE e \in map : e.key = key).idx
    ELSE -1

RECURSIVE compress_node(_, _, _)
RECURSIVE compress_targets(_, _, _, _, _)

\* for target in x.targets.iter_mut() { *target = self.compress_node(...) }
\* over the targets lo..hi (1-based), left to right, threading the map and
\* the new table st = [map, new] from one target to the next.  The range is
\* split in halves to keep the evaluation shallow; the order of the calls
\* is that of the loop.
compress_targets(ns, targets, lo, hi, st) ==
    IF lo > hi THEN [targets |-> <<>>, map |-> st.map, new |-> st.new]
    ELSE IF lo = hi
    THEN LET r == compress_node(ns, targets[lo], st)
         IN  [targets |-> <<r.idx>>, map |-> r.map, new |-> r.new]
    ELSE LET mid == (lo + hi) \div 2
             l == compress_targets(ns, targets, lo, mid, st)
             r == compress_targets(ns, targets, mid + 1, hi,
                                   [map |-> l.map, new |-> l.new])
         IN  [targets |-> l.targets \o r.targets, map |-> r.map, new |-> r.new]

\* compress_node(node, map, new) on the node table ns; st = [map, new].
compress_node(ns, node, st) ==
    LET r == compress_targets(ns, ns[node + 1].targets, 1,
                              Len(ns[node + 1].targets), st)
        x == [ns[node + 1] EXCEPT !.targets = r.targets]
        found == map_get(r.map, node_key(x))
    IN  IF found >= 0
        THEN [idx |-> found, map |-> r.map, new |-> r.new]
        ELSE [idx |-> Len(r.new),
              map |-> r.map \cup {[key |-> node_key(x), idx |-> Len(r.new)]},
              new |-> Append(r.new, x)]

\* A variant of compress that leaves self.root as it is.
compress_keep_root(b) ==
    LET r == compress_node(b.nodes, 0, [map |-> {}, new |-> <<>>])
    IN  [root |-> b.root, nodes |-> r.new, levels |-> b.levels]

\* compress() on the builder b
compress(b) ==
    LET r == compress_node(b.nodes, 0, [map |-> {}, new |-> <<>>])
    IN  [root |-> r.idx, nodes |-> r.new, levels |-> b.levels]

(***************************************************************************)
(* how_many_bytes and to_be_bytes.                                         *)
(***************************************************************************)
\* i8::try_from(num).is_ok()
fits_i8(num) == num >= -128 /\ num <= 127

\* i16::try_from(num).is_ok()
fits_i16(num) == num >= -32768 /\ num <= 32767

\* (-(1 << 23)..(1 << 23)).contains(&num)
fits_i24(num) == num >= -(2^23) /\ num < 2^23

\* A variant of how_many_bytes with the width of a u8 for one byte.
how_many_bytes_u8(num) ==
    IF num > -256 /\ num < 256 THEN 1
    ELSE IF fits_i16(num) THEN 2
    ELSE IF fits_i24(num) THEN 3
    ELSE 0

\* how_many_bytes(num); 0 stands for panic!("too large number")
how_many_bytes(num) ==
    IF fits_i8(num) THEN 1
    ELSE IF fits_i16(num) THEN 2
    ELSE IF fits_i24(num) THEN 3
    ELSE 0

\* Whether to_be_bytes(buf, num, stride) panics: a failed try_from().unwrap()
\* or panic!("invalid stride").
to_be_bytes_panics(num, stride) ==
    IF stride = 1 THEN ~fits_i8(num)
    ELSE IF stride = 2 THEN ~fits_i16(num)
    ELSE stride # 3

\* The bytes to_be_bytes(buf, num, stride) appends to buf: the two's
\* complement of an i8 or i16, most significant byte first, or the three
\* low bytes of num + 2^23 taken as a usize (the cast wraps modulo 2^64,
\* which leaves the three low bytes of the floor division unchanged).
to_be_bytes(num, stride) ==
    IF stride = 1 THEN <<num % 256>>
    ELSE IF stride = 2 THEN <<(num % 65536) \div 256, num % 256>>
    ELSE LET unsigned == num + 2^23
         IN  <<(unsigned \div 65536) % 256, (unsigned \div 256) % 256, unsigned % 256>>

(***************************************************************************)
(* TrieBuilder::encode: the two layout passes.                             *)
(***************************************************************************)
b2i(c) == IF c THEN 1 ELSE 0

Max(S) == CHOOSE x \in S : \A y \in S : y <= x

Min(S) == CHOOSE x \in S : \A y \in S : x <= y

\* let start = 4 + self.levels.len()
start(b) == 4 + Len(b.levels)

\* The size pass 1 adds for a node: every target takes 3 bytes.
estimate_size(node) ==
    1 + b2i(Len(node.trans) >= 31) + 2 * b2i(node.levels # None)
      + (1 + 3) * Len(node.trans)

\* A variant of final_size without the two bytes of the levels.
final_size_no_levels(node, stride) ==
    1 + b2i(Len(node.trans) >= 31) + (1 + stride) * Len(node.trans)

\* The size pass 2 adds for a node of the given stride.
final_size(node, stride) ==
    1 + b2i(Len(node.trans) >= 31) + 2 * b2i(node.levels # None)
      + (1 + stride) * Len(node.trans)

\* The sum of s[lo..hi], split in halves to keep the evaluation shallow.
RECURSIVE sum(_, _, _)
sum(s, lo, hi) ==
    IF lo > hi THEN 0
    ELSE IF lo = hi THEN s[lo]
    ELSE sum(s, lo, (lo + hi) \div 2) + sum(s, (lo + hi) \div 2 + 1, hi)

\* The concatenation of the sequences s[lo..hi], split in halves likewise.
RECURSIVE concat(_, _, _)
concat(s, lo, hi) ==
    IF lo > hi THEN <<>>
    ELSE IF lo = hi THEN s[lo]
    ELSE concat(s, lo, (lo + hi) \div 2) \o concat(s, (lo + hi) \div 2 + 1, hi)

\* Pass 1: the vector estimates; addr runs from start and grows by the
\* estimated size of every node passed.
estimates(b) ==
    LET sizes == [k \in 1..Len(b.nodes) |-> estimate_size(b.nodes[k])]
    IN  [k \in 1..Len(b.nodes) |-> start(b) + sum(sizes, 1, k - 1)]

\* A variant of stride_of that takes the smallest width.
stride_min(node, est, i) ==
    LET hs == {how_many_bytes(est[node.targets[k] + 1] - est[i + 1]) :
                  k \in 1..Len(node.targets)}
    IN  IF hs = {} THEN 1 ELSE Min(hs)

\* node.targets.iter().map(|&t| how_many_bytes(estimates[t] - estimates[i]))
\*     .max().unwrap_or(1), for node i (0-based) and est = estimates
stride_of(node, est, i) ==
    LET hs == {how_many_bytes(est[node.targets[k] + 1] - est[i + 1]) :
                  k \in 1..Len(node.targets)}
    IN  IF hs = {} THEN 1 ELSE Max(hs)

\* The vector strides of pass 2.
strides(b) ==
    LET est == estimates(b)
    IN  [k \in 1..Len(b.nodes) |-> stride_of(b.nodes[k], est, k - 1)]

\* Pass 2: the vector addrs; addr runs from start and grows by the final
\* size of every node passed.
addrs(b) ==
    LET st == strides(b)
        sizes == [k \in 1..Len(b.nodes) |-> final_size(b.nodes[k], st[k])]
    IN  [k \in 1..Len(b.nodes) |-> start(b) + sum(sizes, 1, k - 1)]

\* Whether a call of how_many_bytes in pass 2 panics.
layout_panics(b) ==
    LET est == estimates(b)
    IN  \E k \in 1..Len(b.nodes) : \E j \in 1..Len(b.nodes[k].targets) :
            how_many_bytes(est[b.nodes[k].targets[j] + 1] - est[k]) = 0

(***************************************************************************)
(* TrieBuilder::encode: serialisation.                                     *)
(***************************************************************************)
\* u32::to_be_bytes
u32_to_be_bytes(n) ==
    <<(n \div 16777216) % 256, (n \div 65536) % 256, (n \div 256) % 256, n % 256>>

\* data.push(dist as u8 * 10 + level) for every pair of self.levels
level_bytes(table) == [k \in 1..Len(table) |-> (table[k][1] % 256) * 10 + table[k][2]]

\* The header byte: has-levels << 7 | stride << 5 | min(trans.len(), 31).
\* The three fields occupy disjoint bits, so the bitwise or is their sum.
header_byte(node, stride) ==
    128 * b2i(node.levels # None) + ((stride * 32) % 256) + Min({Len(node.trans), 31})

\* The two bytes of Some((offset, len)): offset_hi, offset_lo | len
levels_ref_bytes(lv) ==
    LET offset == 4 + lv[1]
    IN  <<(offset \div 16) % 256, (((offset % 16) * 16) % 256) + (lv[2] % 256)>>

\* for &target in &node.targets { to_be_bytes(&mut data, delta, stride) }
delta_bytes(node, ad, addr, stride) ==
    concat([k \in 1..Len(node.targets) |->
               to_be_bytes(ad[node.targets[k] + 1] - addr, stride)],
           1, Len(node.targets))

\* The bytes one iteration of the node loop appends to data.
node_record(node, ad, addr, stride) ==
    <<header_byte(node, stride)>>
        \o (IF Len(node.trans) >= 31 THEN <<Len(node.trans)>> ELSE <<>>)
        \o (IF node.levels # None THEN levels_ref_bytes(node.levels) ELSE <<>>)
        \o node.trans
        \o delta_bytes(node, ad, addr, stride)

\* The bytes the node loop appends for the first n nodes.
node_records(ns, ad, st, n) ==
    concat([k \in 1..n |-> node_record(ns[k], ad, ad[k], st[k])], 1, n)

\* Whether encode() stops on an assert!, an unwrap(), an expect() or a
\* panic!.  (u32::try_from(addrs[self.root]) needs an address of 2^32 or
\* more and is beyond every table of the model.)
encode_panics(b) ==
    \/ layout_panics(b)
    \/ \E k \in 1..Len(b.levels) : b.levels[k][1] > 24 \/ b.levels[k][2] >= 10
    \/ \E k \in 1..Len(b.nodes) :
          LET node == b.nodes[k] IN
          \/ Len(node.trans) > 255
          \/ node.levels # None /\ (4 + node.levels[1] >= 4096 \/ node.levels[2] >= 16)
    \/ LET ad == addrs(b)
           st == strides(b)
       IN  \E k \in 1..Len(b.nodes) : \E j \in 1..Len(b.nodes[k].targets) :
               to_be_bytes_panics(ad[b.nodes[k].targets[j] + 1] - ad[k], st[k])

\* The buffer encode() returns when it does not panic.
encode(b) ==
    LET ad == addrs(b)
    IN  u32_to_be_bytes(ad[b.root + 1])
            \o level_bytes(b.levels)
            \o node_records(b.nodes, ad, strides(b), Len(b.nodes))

(***************************************************************************)
(* build_trie: parse() feeds the patterns of the file to insert(), then    *)
(* compress() and encode() run once.                                       *)
(***************************************************************************)
builder == [root |-> root, nodes |-> nodes, levels |-> levels]

Init ==
    /\ tex \in Files
    /\ pos = 0
    /\ root = new.root
    /\ nodes = new.nodes
    /\ levels = new.levels
    /\ phase = "building"
    /\ data = <<>>
    /\ trie = <<>>

\* parse(tex, |pat| builder.insert(pat)): the next pattern of the file
Insert ==
    /\ phase = "building"
    /\ pos < Len(tex)
    /\ LET b == insert(builder, tex[pos + 1])
       IN  /\ root' = b.root
           /\ nodes' = b.nodes
           /\ levels' = b.levels
    /\ pos' = pos + 1
    /\ UNCHANGED <<tex, phase, data, trie>>

\* builder.compress(); trie keeps the table that compress() replaces
Compress ==
    /\ phase = "building"
    /\ pos = Len(tex)
    /\ LET b == compress(builder)
       IN  /\ root' = b.root
           /\ nodes' = b.nodes
           /\ levels' = b.levels
    /\ trie' = nodes
    /\ phase' = "compressed"
    /\ UNCHANGED <<tex, pos, data>>

\* builder.encode() returning the buffer
Encode ==
    /\ phase = "compressed"
    /\ ~encode_panics(builder)
    /\ data' = encode(builder)
    /\ phase' = "encoded"
    /\ UNCHANGED <<tex, pos, root, nodes, levels, trie>>

\* builder.encode() panicking
EncodePanic ==
    /\ phase = "compressed"
    /\ encode_panics(builder)
    /\ phase' = "aborted"
    /\ UNCHANGED <<tex, pos, root, nodes, levels, data, trie>>

Next == Insert \/ Compress \/ Encode \/ EncodePanic

Spec == Init /\ [][Next]_vars

(***************************************************************************)
(* The reader's side of the format: walking a node table by bytes, the     *)
(* slice of the level table that a reference selects, and the fields of a  *)
(* node record in the buffer.                                              *)
(***************************************************************************)
\* The non-digit bytes of a pattern, in order.
Letters(p) == SelectSeq(p, LAMBDA c : ~is_ascii_digit(c))

\* The node reached from node `from` by the bytes s[k..], -1 when a byte
\* has no transition.
RECURSIVE WalkFrom(_, _, _, _)
WalkFrom(ns, from, s, k) ==
    IF from < 0 \/ k > Len(s) THEN from
    ELSE LET i == position(ns[from + 1].trans, s[k])
         IN  WalkFrom(ns, IF i >= 0 THEN ns[from + 1].targets[i + 1] ELSE -1, s, k + 1)

Walk(ns, from, s) == WalkFrom(ns, from, s, 1)

\* The (gap, priority) pairs a reference selects from the table:
\* <<<<-1, -1>>>> for no reference, <<<<-2, -2>>>> for one that leaves the table.
Slice(table, ref) ==
    IF ref = None THEN << <<-1, -1>> >>
    ELSE IF ref[1] + ref[2] > Len(table) THEN << <<-2, -2>> >>
    ELSE SubSeq(table, ref[1] + 1, ref[1] + ref[2])

\* The header fields of the record at address addr of the buffer d.
rd_has_levels(d, addr) == d[addr + 1] \div 128
rd_stride(d, addr) == (d[addr + 1] \div 32) % 4
rd_count(d, addr) == IF d[addr + 1] % 32 = 31 THEN d[addr + 2] ELSE d[addr + 1] % 32
rd_trans_at(d, addr) ==
    addr + 1 + (IF d[addr + 1] % 32 = 31 THEN 1 ELSE 0) + 2 * rd_has_levels(d, addr)

\* A delta of the given stride read back: a signed big-endian integer of 1
\* or 2 bytes, or 3 bytes biased by 2^23.
decode_delta(bytes, stride) ==
    IF stride = 1 THEN (IF bytes[1] >= 128 THEN bytes[1] - 256 ELSE bytes[1])
    ELSE IF stride = 2
    THEN LET u == bytes[1] * 256 + bytes[2] IN IF u >= 32768 THEN u - 65536 ELSE u
    ELSE bytes[1] * 65536 + bytes[2] * 256 + bytes[3] - 2^23

\* The address the j-th target (1-based) of the record at addr points at.
rd_target(d, addr, j) ==
    LET s == rd_stride(d, addr)
        p == rd_trans_at(d, addr) + rd_count(d, addr) + (j - 1) * s
    IN  addr + decode_delta(SubSeq(d, p + 1, p + s), s)

\* The 4-byte big-endian root address at the head of the buffer.
rd_root(d) == d[1] * 16777216 + d[2] * 65536 + d[3] * 256 + d[4]

(***************************************************************************)
(* Properties of the encoder.                                              *)
(***************************************************************************)
\* Whether num is a signed integer of s bytes.
InSigned(num, s) == num >= -(2^(8 * s - 1)) /\ num < 2^(8 * s - 1)

\* The smallest of 1, 2, 3 bytes in which every number of ds is a signed
\* integer; 0 when there is none.
SmallestStride(ds) ==
    IF \E s \in 1..3 : \A d \in ds : InSigned(d, s)
    THEN Min({s \in 1..3 : \A d \in ds : InSigned(d, s)})
    ELSE 0

\* The deltas of node k (1-based) under the addresses ad.
Deltas(ad, k) == {ad[nodes[k].targets[j] + 1] - ad[k] : j \in 1..Len(nodes[k].targets)}

\* C1: once the trie is compressed, every delta addrs[t] - addrs[i] is a
\* signed integer of strides[i] bytes, although strides[i] was chosen from
\* the estimates; and in the buffer that encode() returns, the stride read
\* from the header of node i is strides[i] and every delta read back with
\* it, added to addrs[i], is addrs[t].
StrideSound ==
    phase # "building" /\ ~layout_panics(builder) =>
        LET ad == addrs(builder)
            st == strides(builder)
        IN  \A k \in 1..Len(nodes) :
                /\ \A d \in Deltas(ad, k) : InSigned(d, st[k])
                /\ phase = "encoded" =>
                      /\ rd_stride(data, ad[k]) = st[k]
                      /\ \A j \in 1..Len(nodes[k].targets) :
                            rd_target(data, ad[k], j) = ad[nodes[k].targets[j] + 1]

\* A buffer was returned in which some node has stride 2 and a delta that
\* is no signed 8-bit integer, and some node has stride 1 and a target.
StrideSoundWitness ==
    /\ phase = "encoded"
    /\ \E k \in 1..Len(nodes) :
          /\ strides(builder)[k] = 2
          /\ \E d \in Deltas(addrs(builder), k) : ~InSigned(d, 1)
    /\ \E k \in 1..Len(nodes) :
          strides(builder)[k] = 1 /\ Len(nodes[k].targets) > 0

\* C4 as stated: in the buffer that encode() returns, the stride of every
\* node is the smallest of 1, 2, 3 bytes in which all of its deltas
\* addrs[t] - addrs[i] are signed integers.
StrideSmallestForActual ==
    phase = "encoded" =>
        LET ad == addrs(builder)
        IN  \A k \in 1..Len(nodes) :
                rd_stride(data, ad[k]) = SmallestStride(Deltas(ad, k))

\* C4 as amended: in the buffer that encode() returns, the stride of every
\* node is the smallest of 1, 2, 3 bytes in which all of its estimated
\* deltas estimates[t] - estimates[i] are signed integers (1 for a node
\* without targets).
StrideSmallestForEstimates ==
    phase = "encoded" =>
        LET ad == addrs(builder)
            est == estimates(builder)
        IN  \A k \in 1..Len(nodes) :
                rd_stride(data, ad[k]) = SmallestStride(Deltas(est, k))

\* A buffer was returned in which a node has stride 2 for its estimated
\* deltas while all of its actual deltas are signed 8-bit integers.
StrideSmallestWitness ==
    /\ phase = "encoded"
    /\ \E k \in 1..Len(nodes) :
          /\ rd_stride(data, addrs(builder)[k]) = 2
          /\ SmallestStride(Deltas(estimates(builder), k)) = 2
          /\ SmallestStride(Deltas(addrs(builder), k)) = 1

\* The buffer just before the header byte of node k (1-based) is pushed.
BufferBefore(k) ==
    u32_to_be_bytes(addrs(builder)[root + 1])
        \o level_bytes(levels)
        \o node_records(nodes, addrs(builder), strides(builder), k - 1)

\* C9: in the buffer that encode() returns, the record of node i starts at
\* byte addrs[i]: the buffer is addrs[i] bytes long just before the header
\* of node i is pushed, the first node starts at 4 + the length of the
\* level table, the whole buffer ends where the running address of pass 2
\* ends, and the 4-byte root value and every address a delta leads to are
\* the start of a node record.
RecordsStartAtAddrs ==
    phase = "encoded" =>
        LET ad == addrs(builder)
            st == strides(builder)
        IN  /\ ad[1] = 4 + Len(levels)
            /\ \A k \in 1..Len(nodes) :
                  /\ Len(BufferBefore(k)) = ad[k]
                  /\ SubSeq(data, 1, ad[k]) = BufferBefore(k)
                  /\ \A j \in 1..Len(nodes[k].targets) :
                        \E t \in 1..Len(nodes) : rd_target(data, ad[k], j) = ad[t]
            /\ Len(data) = ad[Len(nodes)] + final_size(nodes[Len(nodes)], st[Len(nodes)])
            /\ \E t \in 1..Len(nodes) : rd_root(data) = ad[t]

\* A buffer was returned for a table with a node of 31 or more transitions
\* followed by another node, a node of fewer than 31 transitions, a node
\* with levels and a node of stride 2.
RecordsStartWitness ==
    /\ phase = "encoded"
    /\ \E k \in 1..(Len(nodes) - 1) : Len(nodes[k].trans) >= 31
    /\ \E k \in 1..Len(nodes) : Len(nodes[k].trans) \in 1..30
    /\ \E k \in 1..Len(nodes) : nodes[k].levels # None
    /\ \E k \in 1..Len(nodes) : strides(builder)[k] = 2

\* C10: once the trie is compressed, every target of a node is smaller than
\* the node's own index, the root is the last node of the table, and every
\* delta of the layout, and every delta read back from the buffer that
\* encode() returns, is negative.
ChildrenPrecedeParents ==
    phase # "building" =>
        /\ root = Len(nodes) - 1
        /\ \A k \in 1..Len(nodes) : \A j \in 1..Len(nodes[k].targets) :
              nodes[k].targets[j] < k - 1
        /\ ~layout_panics(builder) =>
              \A k \in 1..Len(nodes) : \A d \in Deltas(addrs(builder), k) : d < 0
        /\ phase = "encoded" =>
              \A k \in 1..Len(nodes) : \A j \in 1..Len(nodes[k].targets) :
                  rd_target(data, addrs(builder)[k], j) < addrs(builder)[k]

\* A compressed table of three or more nodes with a node shared by two
\* parents was encoded.
ChildrenPrecedeWitness ==
    /\ phase = "encoded"
    /\ Len(nodes) >= 3
    /\ \E k1, k2 \in 1..Len(nodes) :
          /\ k1 # k2
          /\ \E j1 \in 1..Len(nodes[k1].targets), j2 \in 1..Len(nodes[k2].targets) :
                nodes[k1].targets[j1] = nodes[k2].targets[j2]

(***************************************************************************)
(* Properties of insert().                                                 *)
(***************************************************************************)
\* The positions of the digits of a pattern, in order.
DigitPositions(p) ==
    SelectSeq([i \in 1..Len(p) |-> i], LAMBDA i : is_ascii_digit(p[i]))

\* The (gap, priority) sequence of a pattern: for every digit, the number
\* of non-digit bytes since the digit before it (or since the start of the
\* pattern), and the value of the digit.
PatternLevels(p) ==
    LET dp == DigitPositions(p)
    IN  [j \in 1..Len(dp) |->
            <<dp[j] - (IF j = 1 THEN 0 ELSE dp[j - 1]) - 1, p[dp[j]] - 48>>]

\* The (gap, priority) sequence at the node that the letters of p lead to
\* from node `from` of the table ns: <<<<-3, -3>>>> when they lead nowhere.
LevelsAt(ns, from, table, p) ==
    LET n == Walk(ns, from, Letters(p))
    IN  IF n < 0 THEN << <<-3, -3>> >> ELSE Slice(table, ns[n + 1].levels)

\* Whether a pattern with the letters of tex[k] and other levels was
\* inserted after tex[k].
Overwritten(k) ==
    \E j \in (k + 1)..pos :
        /\ Letters(tex[j]) = Letters(tex[k])
        /\ PatternLevels(tex[j]) # PatternLevels(tex[k])

\* C2 as stated: after any sequence of insert() calls, the letters of every
\* inserted pattern lead from the root to a node whose reference selects
\* the pattern's own (gap, priority) sequence from the table.
EveryPatternKeepsItsLevels ==
    phase = "building" =>
        \A k \in 1..pos : LevelsAt(nodes, 0, levels, tex[k]) = PatternLevels(tex[k])

\* C2 as amended: after any sequence of insert() calls, the letters of every
\* inserted pattern, unless a pattern with the same letters and another
\* (gap, priority) sequence was inserted after it, lead from the root to a
\* node whose reference selects the pattern's own (gap, priority) sequence.
LastPatternKeepsItsLevels ==
    phase = "building" =>
        \A k \in 1..pos :
            ~Overwritten(k) => LevelsAt(nodes, 0, levels, tex[k]) = PatternLevels(tex[k])

\* Three patterns were inserted: one overwritten by a later one, and one
\* with two levels that found its levels in the table.
LastPatternWitness ==
    /\ phase = "building"
    /\ pos = 3
    /\ \E k \in 1..pos : Overwritten(k)
    /\ \E k \in 1..pos :
          /\ ~Overwritten(k)
          /\ Len(PatternLevels(tex[k])) = 2
          /\ Len(levels) > 2

\* The state after inserting only ".ab1c" and then ".ab2d", with the tree
\* that both share.
AbScenario == phase = "building" /\ tex = <<PatAb1c, PatAb2d>> /\ pos = 2

AbShape ==
    LET ab == Walk(nodes, 0, <<46, 97, 98>>)
        c == Walk(nodes, 0, <<46, 97, 98, 99>>)
        d == Walk(nodes, 0, <<46, 97, 98, 100>>)
    IN  /\ Len(nodes) = 6
        /\ ab >= 0 /\ c >= 0 /\ d >= 0 /\ c # d
        /\ nodes[ab + 1].trans = <<99, 100>>
        /\ nodes[ab + 1].targets = <<c, d>>
        /\ nodes[c + 1].trans = <<>> /\ nodes[d + 1].trans = <<>>
        /\ Len(levels) = 2

\* C5 as stated: inserting only ".ab1c" and then ".ab2d" gives one path
\* '.', 'a', 'b' with two distinct terminal nodes below it, the one for 'c'
\* with the sequence (2,1), the one for 'd' with the sequence (2,2), and a
\* table of length 2 holding both pairs.
AbGapTwo ==
    AbScenario =>
        /\ AbShape
        /\ LevelsAt(nodes, 0, levels, PatAb1c) = << <<2, 1>> >>
        /\ LevelsAt(nodes, 0, levels, PatAb2d) = << <<2, 2>> >>
        /\ \E i, j \in 1..Len(levels) : levels[i] = <<2, 1>> /\ levels[j] = <<2, 2>>

\* C5 as amended: inserting only ".ab1c" and then ".ab2d" gives one path
\* '.', 'a', 'b' with two distinct terminal nodes below it, the one for 'c'
\* with the sequence (3,1), the one for 'd' with the sequence (3,2), and a
\* table of length 2 holding both pairs.
AbGapThree ==
    AbScenario =>
        /\ AbShape
        /\ LevelsAt(nodes, 0, levels, PatAb1c) = << <<3, 1>> >>
        /\ LevelsAt(nodes, 0, levels, PatAb2d) = << <<3, 2>> >>
        /\ \E i, j \in 1..Len(levels) : levels[i] = <<3, 1>> /\ levels[j] = <<3, 2>>

AbWitness == AbScenario /\ Len(nodes) = 6 /\ Len(levels) = 2

\* Whether the step inserts a pattern that was inserted before.
InsertsDuplicate ==
    /\ phase = "building"
    /\ pos' = pos + 1
    /\ \E k \in 1..pos : tex[k] = tex[pos + 1]

\* The compressed table before and after the step, and the nodes the
\* letters of the pattern of the step lead to in them.
Once == compress(builder)
Twice == compress([root |-> root', nodes |-> nodes', levels |-> levels'])
OnceEnd == Walk(Once.nodes, Once.root, Letters(tex[pos + 1]))
TwiceEnd == Walk(Twice.nodes, Twice.root, Letters(tex[pos + 1]))

\* C6 as stated: inserting a pattern again leaves the number of nodes and
\* the level table as they are, and in the compressed table the letters of
\* the pattern still lead to one node, with the transitions and the (gap,
\* priority) sequence of the node they lead to when the pattern was not
\* inserted again.
DuplicateInsertSameAsOnce ==
    [][InsertsDuplicate =>
          /\ Len(nodes') = Len(nodes)
          /\ levels' = levels
          /\ OnceEnd >= 0 /\ TwiceEnd >= 0
          /\ Twice.nodes[TwiceEnd + 1].trans = Once.nodes[OnceEnd + 1].trans
          /\ Slice(levels', Twice.nodes[TwiceEnd + 1].levels)
                 = Slice(levels, Once.nodes[OnceEnd + 1].levels)]_vars

\* C6 as amended: inserting a pattern again leaves the number of nodes and
\* the level table as they are, and in the compressed table the letters of
\* the pattern still lead to one node, with the transitions of the node
\* they lead to when the pattern was not inserted again and with the
\* pattern's own (gap, priority) sequence; that is the sequence of the node
\* they lead to when the pattern was not inserted again, unless a pattern
\* with the same letters and another sequence was inserted in between.
DuplicateInsertAddsNothing ==
    [][InsertsDuplicate =>
          /\ Len(nodes') = Len(nodes)
          /\ levels' = levels
          /\ OnceEnd >= 0 /\ TwiceEnd >= 0
          /\ Twice.nodes[TwiceEnd + 1].trans = Once.nodes[OnceEnd + 1].trans
          /\ Slice(levels', Twice.nodes[TwiceEnd + 1].levels) = PatternLevels(tex[pos + 1])
          /\ (\E k \in 1..pos : tex[k] = tex[pos + 1] /\ ~Overwritten(k)) =>
                Slice(levels', Twice.nodes[TwiceEnd + 1].levels)
                    = Slice(levels, Once.nodes[OnceEnd + 1].levels)]_vars

\* A pattern with levels was inserted for the second time, after another
\* pattern in between.
DuplicateInsertWitness ==
    /\ phase = "building"
    /\ pos = 3
    /\ tex[3] = tex[1]
    /\ tex[2] # tex[1]
    /\ Len(PatternLevels(tex[3])) > 0

\* The range of table offsets a reference selects.
RefRange(ref) == {i \in Nat : ref[1] <= i /\ i < ref[1] + ref[2]} \cap 0..Len(levels)

\* C8: every reference of a node lies within the level table, and two nodes
\* whose references select equal sequences have references at the same
\* offset or, for a non-empty sequence, ranges that intersect.
ReferencesValidAndOverlapping ==
    /\ \A k \in 1..Len(nodes) :
          nodes[k].levels # None => nodes[k].levels[1] + nodes[k].levels[2] <= Len(levels)
    /\ \A k1, k2 \in 1..Len(nodes) :
          LET r1 == nodes[k1].levels
              r2 == nodes[k2].levels
          IN  (r1 # None /\ r2 # None /\ Slice(levels, r1) = Slice(levels, r2)) =>
                  \/ r1 = r2
                  \/ r1[2] > 0 /\ RefRange(r1) \cap RefRange(r2) # {}

\* Two nodes select the same non-empty sequence at different offsets.
ReferencesWitness ==
    /\ phase = "building"
    /\ \E k1, k2 \in 1..Len(nodes) :
          /\ nodes[k1].levels # None /\ nodes[k2].levels # None
          /\ nodes[k1].levels[1] # nodes[k2].levels[1]
          /\ nodes[k1].levels[2] > 0
          /\ Slice(levels, nodes[k1].levels) = Slice(levels, nodes[k2].levels)

(***************************************************************************)
(* Properties of compress().  In every state after compress(), trie is the *)
(* table before it, with its root at index 0.                              *)
(***************************************************************************)
\* The non-digit bytes that occur in the patterns of the file and of the
\* library.
Alphabet ==
    UNION {{p[i] : i \in {j \in 1..Len(p) : ~is_ascii_digit(p[j])}} :
              p \in Library \cup {tex[k] : k \in 1..Len(tex)}}

\* The byte strings tried: the prefixes of the letters of the patterns of
\* the file and of the library, and each of them followed by one byte.
Probes ==
    LET prefixes == UNION {{SubSeq(Letters(p), 1, n) : n \in 0..Len(Letters(p))} :
                              p \in Library \cup {tex[k] : k \in 1..Len(tex)}}
    IN  prefixes \cup {Append(s, c) : s \in prefixes, c \in Alphabet}

\* C3: the letters of every inserted pattern lead somewhere in the table
\* before compress(); and a byte string leads somewhere from the new root
\* of the compressed table exactly if it leads somewhere from the root of
\* the table before, and then to a node with the same reference and hence
\* the same (gap, priority) sequence.
CompressPreservesWalks ==
    phase # "building" =>
        /\ \A k \in 1..Len(tex) : Walk(trie, 0, Letters(tex[k])) >= 0
        /\ \A s \in Probes :
              LET a == Walk(trie, 0, s)
                  c == Walk(nodes, root, s)
              IN  /\ (a < 0) = (c < 0)
                  /\ a >= 0 =>
                        /\ nodes[c + 1].levels = trie[a + 1].levels
                        /\ nodes[c + 1].trans = trie[a + 1].trans
                        /\ Slice(levels, nodes[c + 1].levels)
                               = Slice(levels, trie[a + 1].levels)

\* The letters of two inserted patterns lead to two nodes of the table
\* before compress() and to one node of the compressed table, and a third
\* pattern leads to a node with another reference.
CompressPreservesWitness ==
    /\ phase = "compressed"
    /\ \E k1, k2, k3 \in 1..Len(tex) :
          /\ Walk(trie, 0, Letters(tex[k1])) # Walk(trie, 0, Letters(tex[k2]))
          /\ Walk(nodes, root, Letters(tex[k1])) = Walk(nodes, root, Letters(tex[k2]))
          /\ Walk(nodes, root, Letters(tex[k3])) >= 0
          /\ nodes[Walk(nodes, root, Letters(tex[k3])) + 1].levels
                 # nodes[Walk(nodes, root, Letters(tex[k1])) + 1].levels

\* The subtree below node n (0-based) of the table ns: the transitions and
\* the reference of n and, in place of its targets, their subtrees.
RECURSIVE Subtree(_, _)
Subtree(ns, n) ==
    [trans |-> ns[n + 1].trans,
     levels |-> ns[n + 1].levels,
     subs |-> [j \in 1..Len(ns[n + 1].targets) |-> Subtree(ns, ns[n + 1].targets[j])]]

\* C7: the compressed table has at most as many nodes as the table before
\* compress(), no two of its nodes are equal in transitions, targets and
\* reference, and it has as many nodes only if no two nodes of the table
\* before have equal subtrees.
CompressReduces ==
    phase # "building" =>
        /\ Len(nodes) <= Len(trie)
        /\ \A k1, k2 \in 1..Len(nodes) : k1 # k2 => nodes[k1] # nodes[k2]
        /\ Len(nodes) = Len(trie) =>
              \A n1, n2 \in 0..(Len(trie) - 1) :
                  n1 # n2 => Subtree(trie, n1) # Subtree(trie, n2)

\* compress() made the table smaller.
CompressReducesWitness ==
    /\ phase = "compressed"
    /\ Len(nodes) < Len(trie)
    /\ Len(nodes) >= 3

====
